---- MODULE Spec2Model ----
(***************************************************************************)
(* Model of notebooks/preprocessing.ipynb: the Spark sizing heuristic      *)
(* (configure_spark, build_spark_session), the top-25 subreddit filter     *)
(* (filter_data) and the seeded train/test split (split_data).             *)
(***************************************************************************)
EXTENDS Integers, Sequences, FiniteSets, TLC

VARIABLES
    sizings,            \* the last calls of configure_spark / build_spark_session, newest last
    pc,                 \* position in the prepare phase: "loaded", "filtered", "split"
    df,                 \* the loaded DataFrame: a sequence of rows
    df_filtered,        \* filter_data's result
    top_25_subreddits,  \* filter_data's collected list of retained subreddits
    train_data,         \* split_data's first result
    test_data,          \* split_data's second result
    split_args,         \* the <<seed, test_fraction>> of the split_data call
    split_log,          \* the last two split_data calls: arguments, input and results
    results,            \* the benchmark loop's list of rows
    file_idx,           \* position of the benchmark loop in files
    run,                \* evaluate_performance: the repetition index i
    live,               \* the Spark sessions that are running
    spark,              \* build_spark_session: the session of the size probe
    spark_session,      \* the session build_spark_session returns
    fileSize,           \* the length getFileStatus reported
    metrics,            \* the five np.zeros(n) arrays of evaluate_performance
    now,                \* the clock time.time() reads
    times,              \* start_time, data_time, train_time, eval_time, end_time
    model,              \* the fitted model
    reported,           \* executor_cores, executor_memory, max_cores read from the session
    created,            \* history: sessions started in the current repetition
    trace,              \* history: phases of the latest repetition, in order
    marks,              \* history: clock at the phase boundaries of the latest repetition
    run_metrics,        \* history: the per-repetition values of the current file
    attempted,          \* history: files evaluate_performance was called on
    failed,             \* history: files whose evaluation raised
    slow_used           \* history: number of slow training runs so far

prepVars == <<pc, df, df_filtered, top_25_subreddits, train_data, test_data, split_args, split_log>>

harnessVars == <<results, file_idx, run, live, spark, spark_session, fileSize, metrics, now,
                 times, model, reported, created, trace, marks, run_metrics, attempted, failed,
                 slow_used>>

vars == <<sizings, prepVars, harnessVars>>

Min(a, b) == IF a <= b THEN a ELSE b

-----------------------------------------------------------------------------
(* Sizes.  A file size is counted in units of 1 MiB (bytes_to_mb's divisor), *)
(* so that a corpus of 18 GB stays inside TLC's integers.  A size in        *)
(* gigabytes is the exact rational num/den that the float division yields.  *)

MiB == 1024 * 1024

GiB == 1024 * 1024 * 1024

\* Sizes on both sides of every half-gigabyte step up to MaxHalfGb steps.
MaxHalfGb == 12

\* The negative sizes tried reach down to MaxNegHalfGb half-gigabytes.
MaxNegHalfGb == 3

HalfGbUnits == (GiB \div MiB) \div 2

\* The five corpora of the recorded run: 0.365, 0.730, 1.457, 3.637 and 18.273 GB.
RecordedSizes == {374, 748, 1492, 3724, 18711}

GridSizes == {k * HalfGbUnits + o : k \in 0..MaxHalfGb, o \in {0, HalfGbUnits - 1}}

\* A size in hundredths (thousandths) of a gigabyte, rounded half up.
GbHundredths(size) == (size * 200 + (GiB \div MiB)) \div (2 * (GiB \div MiB))

GbThousandths(size) == (size * 2000 + (GiB \div MiB)) \div (2 * (GiB \div MiB))

\* Every size that reads 18.27 GB.
ScenarioSizes == {s \in 18700..18720 : GbHundredths(s) = 1827}

\* What fileStatus.getLen() can return: a length is never negative.
FileSizes == GridSizes \cup RecordedSizes \cup ScenarioSizes

NegativeSizes == {-(k * HalfGbUnits + o) : k \in 0..MaxNegHalfGb, o \in {0, 1, HalfGbUnits - 1}} \ {0}

\* What configure_spark can be handed as an argument.
SizeInputs == FileSizes \cup NegativeSizes

bytes_to_gb(size_bytes) == [num |-> size_bytes, den |-> GiB \div MiB]

\* Python's int() of the quotient a / b, b > 0: truncation toward zero.
int(a, b) == IF a >= 0 THEN a \div b ELSE -((-a) \div b)

core_factor == 2

memory_factor == 1

\* executor_cores without the step that makes it even.
configure_spark_no_even(dataset_size_gb) ==
    LET executor_cores == int(dataset_size_gb.num * core_factor, dataset_size_gb.den) + 2
    IN  [executor_cores  |-> executor_cores,
         executor_memory |-> ToString(Min(executor_cores, 4) * memory_factor) \o "g",
         raised          |-> FALSE]

\* executor_memory without the cap at 4.
configure_spark_no_cap(dataset_size_gb) ==
    LET raw == int(dataset_size_gb.num * core_factor, dataset_size_gb.den) + 2
        executor_cores == IF raw % 2 # 0 THEN raw + 1 ELSE raw
    IN  [executor_cores  |-> executor_cores,
         executor_memory |-> ToString(executor_cores * memory_factor) \o "g",
         raised          |-> FALSE]

\* executor_cores made even by doubling an odd count.
configure_spark_even_by_doubling(dataset_size_gb) ==
    LET raw == int(dataset_size_gb.num * core_factor, dataset_size_gb.den) + 2
        executor_cores == IF raw % 2 # 0 THEN raw * 2 ELSE raw
    IN  [executor_cores  |-> executor_cores,
         executor_memory |-> ToString(Min(executor_cores, 4) * memory_factor) \o "g",
         raised          |-> FALSE]

\* round() in place of int().
configure_spark_rounded(dataset_size_gb) ==
    LET raw == int(2 * dataset_size_gb.num * core_factor + dataset_size_gb.den,
                   2 * dataset_size_gb.den) + 2
        executor_cores == IF raw % 2 # 0 THEN raw + 1 ELSE raw
    IN  [executor_cores  |-> executor_cores,
         executor_memory |-> ToString(Min(executor_cores, 4) * memory_factor) \o "g",
         raised          |-> FALSE]

\* configure_spark: the returned pair, and whether the call raised (it has no raise).
configure_spark(dataset_size_gb) ==
    LET raw == int(dataset_size_gb.num * core_factor, dataset_size_gb.den) + 2
        executor_cores == IF raw % 2 # 0 THEN raw + 1 ELSE raw
    IN  [executor_cores  |-> executor_cores,
         executor_memory |-> ToString(Min(executor_cores, 4) * memory_factor) \o "g",
         raised          |-> FALSE]

\* The session configuration with spark.executor.cores left uncapped.
session_conf_uncapped(plan) ==
    [spark_executor_cores  |-> plan.executor_cores,
     spark_executor_memory |-> plan.executor_memory,
     spark_cores_max       |-> Min(plan.executor_cores, 32)]

\* The session configuration with spark.cores.max left uncapped.
session_conf_max_uncapped(plan) ==
    [spark_executor_cores  |-> Min(plan.executor_cores, 4),
     spark_executor_memory |-> plan.executor_memory,
     spark_cores_max       |-> plan.executor_cores]

\* The .config(...) calls of the sized session that depend on the sizing.
session_conf(plan) ==
    [spark_executor_cores  |-> Min(plan.executor_cores, 4),
     spark_executor_memory |-> plan.executor_memory,
     spark_cores_max       |-> Min(plan.executor_cores, 32)]

\* The configuration of a call that built no session.
NoConf == [spark_executor_cores |-> 0, spark_executor_memory |-> "", spark_cores_max |-> 0]

\* The history keeps the last two calls.
Last2(s) == IF Len(s) > 2 THEN SubSeq(s, Len(s) - 1, Len(s)) ELSE s

\* A direct call configure_spark(bytes_to_gb(size)).
ConfigureSpark(size) ==
    LET plan == configure_spark(bytes_to_gb(size))
    IN  /\ sizings' = Last2(Append(sizings,
                [call |-> "configure_spark", fileSize |-> size, plan |-> plan, conf |-> NoConf]))
        /\ UNCHANGED <<prepVars, harnessVars>>

\* build_spark_session: the probed fileSize, the sizing and the sized session's settings.
BuildSparkSession(length) ==
    LET plan == configure_spark(bytes_to_gb(length))
    IN  /\ sizings' = Last2(Append(sizings,
                [call |-> "build_spark_session", fileSize |-> length, plan |-> plan,
                 conf |-> session_conf(plan)]))
        /\ UNCHANGED <<prepVars, harnessVars>>

-----------------------------------------------------------------------------
(* DataFrames.  A DataFrame is the sequence of its rows in partition order; *)
(* a row carries the three nullable string columns of schema_v1 and rid,    *)
(* the number of the line of the JSON file it was read from.                *)

\* A null column value (the StructFields are nullable); a present one is >= 1.
NULL == 0

\* The most distinct subreddits a generated corpus holds.
MaxCats == 30

Range(s) == {s[i] : i \in DOMAIN s}

WithRid(cols) ==
    [i \in DOMAIN cols |->
        [rid |-> i, subreddit |-> cols[i][1], summary |-> cols[i][2], content |-> cols[i][3]]]

\* The incomplete lines of a corpus whose subreddits are 1..n.
BadRows(n, bad) ==
    CASE bad = 0 -> <<>>
      [] bad = 1 -> << <<NULL, 1, 1>>, <<NULL, NULL, NULL>> >>
      [] bad = 2 -> IF n >= 1 THEN << <<n, NULL, 1>>, <<n, 1, NULL>> >>
                              ELSE << <<1, NULL, 1>> >>
      [] bad = 3 -> << <<n + 1, 1, NULL>>, <<n + 1, 1, NULL>>, <<n + 1, NULL, 1>> >>

\* A corpus: the incomplete lines, one complete post for each of the
\* subreddits 1..n and a second, identical one for each of 1..h.
Corpus(n, h, bad) ==
    WithRid(BadRows(n, bad) \o [c \in 1..n |-> <<c, 1, 1>>] \o [c \in 1..h |-> <<c, 1, 1>>])

\* How many of n subreddits get a second post: none, all, or a number close to 25.
HeavyChoices(n) == {h \in {0, n} \cup (23..27) : h <= n}

\* What load_data can return under schema_v1.
Datasets ==
    UNION {{Corpus(n, h, bad) : h \in HeavyChoices(n), bad \in 0..3} : n \in 0..MaxCats}

\* The null test with the content column forgotten.
is_not_null_no_content(row) == row.subreddit # NULL /\ row.summary # NULL

\* The filter condition of line 221.
is_not_null(row) == row.subreddit # NULL /\ row.summary # NULL /\ row.content # NULL

\* groupBy("subreddit").count(): the count of each subreddit of data.
group_counts(data) ==
    [c \in {data[i].subreddit : i \in DOMAIN data} |->
        Cardinality({i \in DOMAIN data : data[i].subreddit = c})]

\* The ascending sequence of a set of integers.
RECURSIVE Ascending(_)
Ascending(S) ==
    IF S = {} THEN <<>>
    ELSE LET m == CHOOSE x \in S : \A y \in S : x <= y
         IN  <<m>> \o Ascending(S \ {m})

Rotate(s, k) == [i \in DOMAIN s |-> s[((i - 1 + k) % Len(s)) + 1]]

\* The orders in which the aggregation can emit its groups: Spark fixes none.
\* The orders tried are the rotations of the ascending one.
GroupOrders(counts) ==
    LET asc == Ascending(DOMAIN counts)
    IN  IF asc = <<>> THEN {<<>>} ELSE {Rotate(asc, k) : k \in 0..(Len(asc) - 1)}

RECURSIVE FromCountDown(_, _, _)
FromCountDown(groups, counts, k) ==
    IF k = 0 THEN <<>>
    ELSE SelectSeq(groups, LAMBDA c : counts[c] = k) \o FromCountDown(groups, counts, k - 1)

RECURSIVE FromCountUp(_, _, _, _)
FromCountUp(groups, counts, k, max) ==
    IF k > max THEN <<>>
    ELSE SelectSeq(groups, LAMBDA c : counts[c] = k) \o FromCountUp(groups, counts, k + 1, max)

MaxCount(counts) ==
    IF DOMAIN counts = {} THEN 0
    ELSE CHOOSE m \in Range(counts) : \A x \in Range(counts) : x <= m

\* The groups ordered by ascending count.
order_by_count_asc(groups, counts) == FromCountUp(groups, counts, 1, MaxCount(counts))

\* orderBy(col("count").desc()): a sort by count that keeps equal counts in
\* the order the groups came in, whatever that was.
order_by_count_desc(groups, counts) == FromCountDown(groups, counts, MaxCount(counts))

top_k == 25

\* limit(24): one group too few.
limit_one_short(df_counts) == SubSeq(df_counts, 1, Min(top_k - 1, Len(df_counts)))

\* limit(25)
limit(df_counts) == SubSeq(df_counts, 1, Min(top_k, Len(df_counts)))

\* filter_data, the groups emitted in the order group_order: the collected
\* list of retained subreddits and the filtered DataFrame.
filter_data(data, group_order) ==
    LET not_null  == SelectSeq(data, is_not_null)
        df_counts == order_by_count_desc(group_order, group_counts(not_null))
        top_25    == limit(df_counts)
    IN  [top_25_subreddits |-> top_25,
         df_filtered       |-> SelectSeq(not_null, LAMBDA row : row.subreddit \in Range(top_25))]

\* One call filter_data(df).
FilterCall ==
    \E group_order \in GroupOrders(group_counts(SelectSeq(df, is_not_null))) :
        LET res == filter_data(df, group_order)
        IN  /\ df_filtered' = res.df_filtered
            /\ top_25_subreddits' = res.top_25_subreddits

FilterData ==
    /\ pc = "loaded"
    /\ FilterCall
    /\ pc' = "filtered"
    /\ UNCHANGED <<sizings, df, train_data, test_data, split_args, split_log, harnessVars>>

-----------------------------------------------------------------------------
(* split_data.  randomSplit normalises the weights into the cumulative      *)
(* bounds 0, 1 - test_fraction, 1 and runs one sampler per split; every     *)
(* sampler draws one number per row from a generator seeded with seed and   *)
(* keeps the rows whose number lies in its range.  Fractions are in         *)
(* percent; the generator is a 16-bit linear congruential one.              *)

Seeds == {42, 123}

TestFractions == {20, 30}

rng_next(x) == (x * 25173 + 13849) % 65536

RECURSIVE rng_states(_, _)
rng_states(x, n) == IF n = 0 THEN <<>> ELSE <<rng_next(x)>> \o rng_states(rng_next(x), n - 1)

\* The n numbers in 0..99 a sampler seeded with seed draws, row by row.
draws(seed, n) ==
    LET xs == rng_states(seed % 65536, n)
    IN  [i \in 1..n |-> (xs[i] * 100) \div 65536]

\* The rows of data a sampler with range [lo, hi) keeps.
sample(data, seed, lo, hi) ==
    LET d == draws(seed, Len(data))
        RECURSIVE keep(_)
        keep(i) == IF i > Len(data) THEN <<>>
                   ELSE (IF lo <= d[i] /\ d[i] < hi THEN <<data[i]>> ELSE <<>>) \o keep(i + 1)
    IN  keep(1)

\* The test sampler given the range [0, test_fraction).
test_range_from_zero(test_fraction) == <<0, test_fraction>>

\* The ranges of the two samplers.
train_range(test_fraction) == <<0, 100 - test_fraction>>

test_range(test_fraction) == <<100 - test_fraction, 100>>

split_data(data, seed, test_fraction) ==
    [train_data |-> sample(data, seed, train_range(test_fraction)[1], train_range(test_fraction)[2]),
     test_data  |-> sample(data, seed, test_range(test_fraction)[1], test_range(test_fraction)[2])]

\* The seeds Spark can pick by itself when it is handed none.
Entropy == {7, 1009}

\* randomSplit called without the seed: Spark picks one.
random_split_unseeded(seed, entropy) == entropy

\* The seed randomSplit works with: line 266 hands it split_data's seed.
random_split_seed(seed, entropy) == seed

\* One call split_data(df_filtered, seed, test_fraction) and its record in the log.
SplitCall(seed, test_fraction) ==
    \E rng_seed \in {random_split_seed(seed, entropy) : entropy \in Entropy} :
        LET res == split_data(df_filtered, rng_seed, test_fraction)
        IN  /\ train_data' = res.train_data
            /\ test_data' = res.test_data
            /\ split_args' = <<seed, test_fraction>>
            /\ split_log' = Last2(Append(split_log,
                    [seed |-> seed, test_fraction |-> test_fraction, input |-> df_filtered,
                     train_data |-> res.train_data, test_data |-> res.test_data]))

SplitData(seed, test_fraction) ==
    /\ pc = "filtered"
    /\ SplitCall(seed, test_fraction)
    /\ pc' = "split"
    /\ UNCHANGED <<sizings, df, df_filtered, top_25_subreddits, harnessVars>>

\* A second call of split_data on the DataFrame that has just been split.
SplitAgain(seed, test_fraction) ==
    /\ pc = "split"
    /\ Len(split_log) < 2
    /\ SplitCall(seed, test_fraction)
    /\ UNCHANGED <<sizings, pc, df, df_filtered, top_25_subreddits, harnessVars>>

-----------------------------------------------------------------------------
(* The benchmark: the loop over files and evaluate_performance.  Durations  *)
(* are counted in clock ticks and accuracies in thousandths; a mean is the  *)
(* fraction num / den.                                                      *)

\* The files of the benchmark loop, as file[:-5] names them.
files == <<"reddit_50k", "reddit_100k", "reddit_200k", "reddit_500k", "corpus-webis-tldr-17">>

\* The lengths of the five files in MiB, from the recorded result table.
FileLen == <<374, 748, 1492, 3724, 18711>>

\* The n the benchmark loop passes to evaluate_performance.
N == 5

\* The defaults of split_data.
default_seed == 42

default_test_fraction == 20

\* The most training runs that take one tick longer.
MaxSlow == 1

zeros(k) == [j \in 1..k |-> 0]

\* A session handle that is not bound yet.
NoSession == [app |-> "", file |-> 0, run |-> 0, conf |-> NoConf]

NoTimes == [start_time |-> 0, data_time |-> 0, train_time |-> 0, eval_time |-> 0, end_time |-> 0]

NoMarks == [sizing_begin |-> 0, sizing_end |-> 0, read_end |-> 0, prepare_end |-> 0,
            eval_end |-> 0, release_end |-> 0]

NoMetrics ==
    [overall_exec_time |-> zeros(N), data_load_time |-> zeros(N), training_time |-> zeros(N),
     evaluation_time |-> zeros(N), model_accuracy |-> zeros(N)]

InitHarnessVars ==
    /\ results = <<>>
    /\ file_idx = 1
    /\ run = 0
    /\ live = {}
    /\ spark = NoSession
    /\ spark_session = NoSession
    /\ fileSize = 0
    /\ metrics = NoMetrics
    /\ now = 0
    /\ times = NoTimes
    /\ model = NULL
    /\ reported = NoConf
    /\ created = 0
    /\ trace = <<>>
    /\ marks = NoMarks
    /\ run_metrics = <<>>
    /\ attempted = {}
    /\ failed = {}
    /\ slow_used = 0

InitPrep ==
    /\ pc = "loaded"
    /\ df_filtered = <<>>
    /\ top_25_subreddits = <<>>
    /\ train_data = <<>>
    /\ test_data = <<>>
    /\ split_args = <<>>
    /\ split_log = <<>>
    /\ InitHarnessVars

-----------------------------------------------------------------------------
(* The sizing specification: calls of configure_spark on any size and of    *)
(* build_spark_session on any file length.                                  *)

InitSize ==
    /\ sizings = <<>>
    /\ df = <<>>
    /\ InitPrep

NextSize ==
    \/ \E size \in SizeInputs : ConfigureSpark(size)
    \/ \E length \in FileSizes : BuildSparkSession(length)

SpecSize == InitSize /\ [][NextSize]_vars

-----------------------------------------------------------------------------
(* The prepare specification: a loaded corpus is filtered, then split, as   *)
(* in lines 470 to 476 of evaluate_performance.                             *)

InitPrepare ==
    /\ sizings = <<>>
    /\ df \in Datasets
    /\ InitPrep

NextPrepare ==
    \/ FilterData
    \/ \E seed \in Seeds, test_fraction \in TestFractions : SplitData(seed, test_fraction)

SpecPrepare == InitPrepare /\ [][NextPrepare]_vars

\* Repeated splitting: filter_data once, then split_data twice on its result.
MaxSplitCats == 8

SplitDatasets ==
    {Corpus(n, h, bad) : n \in 0..MaxSplitCats, h \in {0, MaxSplitCats \div 2}, bad \in {0, 2}}

InitSplit ==
    /\ sizings = <<>>
    /\ df \in SplitDatasets
    /\ InitPrep

NextSplit ==
    \/ FilterData
    \/ \E seed \in Seeds, test_fraction \in TestFractions : SplitData(seed, test_fraction)
    \/ \E seed \in Seeds, test_fraction \in TestFractions : SplitAgain(seed, test_fraction)

SpecSplit == InitSplit /\ [][NextSplit]_vars

-----------------------------------------------------------------------------
(* The benchmark specification: the loop over files of lines 933 to 940     *)
(* around evaluate_performance, one action per statement that changes the   *)
(* state, and the exception a step can raise.                               *)

dataVars == <<df, df_filtered, top_25_subreddits, train_data, test_data, split_args, split_log>>

\* What load_data returns for the file at position f: a small corpus per file,
\* seven posts in the first subreddit, incomplete lines and one post in each of
\* f + 1 subreddits.
LoadedCorpus(f) ==
    WithRid([c \in 1..7 |-> <<1, 1, 1>>] \o BadRows(f + 1, f % 4)
                \o [c \in 1..(f + 1) |-> <<c, 1, 1>>])

RECURSIVE SumSeq(_)
SumSeq(arr) == IF arr = <<>> THEN 0 ELSE arr[1] + SumSeq(Tail(arr))

\* A mean that leaves the first run out.
mean_without_first(arr) == [num |-> SumSeq(Tail(arr)), den |-> Len(arr) - 1]

\* numpy's arr.mean().
mean(arr) == [num |-> SumSeq(arr), den |-> Len(arr)]

\* A stop that leaves the session running.
stop_ignored(running, session) == running

\* session.stop() and spark_context.stop(): the session runs no longer.
stop(running, session) == running \ {session}

\* A builder that starts a session although one is running.
getOrCreate_always_new(running, new) == new

\* SparkSession.builder.getOrCreate(): the running session if there is one.
getOrCreate(running, new) == IF running = {} THEN new ELSE CHOOSE s \in running : TRUE

\* The model a pipeline fit stands for: it predicts the most frequent
\* subreddit of the training data.
random_forest(train) ==
    LET cats == {train[k].subreddit : k \in DOMAIN train}
        count == {<<c, Cardinality({k \in DOMAIN train : train[k].subreddit = c})>> : c \in cats}
    IN  IF train = <<>> THEN NULL
        ELSE (CHOOSE a \in count :
                 \A b \in count : a[2] > b[2] \/ (a[2] = b[2] /\ a[1] <= b[1]))[1]

\* The share of test rows the model labels right, in thousandths.
model_eval(fitted, test) ==
    IF test = <<>> THEN 0
    ELSE (1000 * Cardinality({k \in DOMAIN test : test[k].subreddit = fitted})) \div Len(test)

\* The differences of clock readings that fill the arrays.
data_load_until_train(tm) == tm.train_time - tm.start_time

data_load(tm) == tm.data_time - tm.start_time

training(tm) == tm.train_time - tm.data_time

\* An evaluation time counted from data_time.
evaluation_since_data(tm) == tm.eval_time - tm.data_time

evaluation(tm) == tm.eval_time - tm.train_time

overall_since_data(tm) == tm.end_time - tm.data_time

overall(tm) == tm.end_time - tm.start_time

\* The list res of line 513 behind the file's name.
BenchmarkRow ==
    [file              |-> files[file_idx],
     size              |-> bytes_to_gb(fileSize),
     executor_cores    |-> reported.spark_executor_cores,
     executor_memory   |-> reported.spark_executor_memory,
     max_cores         |-> reported.spark_cores_max,
     data_load_time    |-> mean(metrics.data_load_time),
     training_time     |-> mean(metrics.training_time),
     evaluation_time   |-> mean(metrics.evaluation_time),
     overall_exec_time |-> mean(metrics.overall_exec_time),
     model_accuracy    |-> mean(metrics.model_accuracy)]

\* A list insert at the front.
append_front(list, row) == <<row>> \o list

\* list.append.
append(list, row) == Append(list, row)

\* An except branch that records a row of zeroes for the file.
on_exception_zero_row(list, f) ==
    Append(list, [file |-> files[f], size |-> bytes_to_gb(0), executor_cores |-> 0,
                  executor_memory |-> "", max_cores |-> 0, data_load_time |-> mean(zeros(N)),
                  training_time |-> mean(zeros(N)), evaluation_time |-> mean(zeros(N)),
                  overall_exec_time |-> mean(zeros(N)), model_accuracy |-> mean(zeros(N))])

\* The except branch of lines 938 to 940 prints and leaves results alone.
on_exception(list, f) == list

\* An except branch that gives up the loop over files.
after_exception_stop(f) == Len(files) + 1

\* After the except branch the loop goes to the next file.
after_exception(f) == f + 1

\* Line 933 and 935: the loop takes the next file and calls evaluate_performance.
CallEvaluatePerformance ==
    /\ pc = "for_file"
    /\ file_idx <= Len(files)
    /\ metrics' = NoMetrics
    /\ run' = 0
    /\ run_metrics' = <<>>
    /\ attempted' = attempted \cup {file_idx}
    /\ pc' = "for_i"
    /\ UNCHANGED <<sizings, dataVars, results, file_idx, live, spark, spark_session, fileSize,
                   now, times, model, reported, created, trace, marks, failed, slow_used>>

\* Line 943: the loop is over and the table is built.
Finish ==
    /\ pc = "for_file"
    /\ file_idx > Len(files)
    /\ pc' = "done"
    /\ UNCHANGED <<sizings, dataVars, harnessVars>>

\* Lines 461 to 464: a repetition begins and reads the clock.  Only differences
\* of readings of one repetition are used, so the clock counts from here.
BeginRep ==
    /\ pc = "for_i"
    /\ run < N
    /\ now' = 0
    /\ times' = [times EXCEPT !.start_time = now']
    /\ created' = 0
    /\ pc' = "probe"
    /\ UNCHANGED <<sizings, dataVars, results, file_idx, run, live, spark, spark_session,
                   fileSize, metrics, model, reported, trace, marks, run_metrics, attempted,
                   failed, slow_used>>

\* Line 87: the session of the size probe.
ProbeSession ==
    /\ pc = "probe"
    /\ LET s == getOrCreate(live, [app |-> "Project Group 32 HDFSFileSize", file |-> file_idx,
                                   run |-> run, conf |-> NoConf])
       IN  /\ spark' = s
           /\ live' = live \cup {s}
           /\ created' = IF s \in live THEN created ELSE created + 1
    /\ trace' = <<"Sizing">>
    /\ marks' = [NoMarks EXCEPT !.sizing_begin = now]
    /\ now' = now + 1
    /\ pc' = "status"
    /\ UNCHANGED <<sizings, dataVars, results, file_idx, run, spark_session, fileSize, metrics,
                   times, model, reported, run_metrics, attempted, failed, slow_used>>

\* Lines 88 to 93: the length of the file.
GetFileStatus ==
    /\ pc = "status"
    /\ fileSize' = FileLen[file_idx]
    /\ now' = now + 1
    /\ pc' = "probe_stop"
    /\ UNCHANGED <<sizings, dataVars, results, file_idx, run, live, spark, spark_session,
                   metrics, times, model, reported, created, trace, marks, run_metrics,
                   attempted, failed, slow_used>>

\* Line 98: the probe's session is stopped.
ProbeStop ==
    /\ pc = "probe_stop"
    /\ live' = stop(live, spark)
    /\ now' = now + 1
    /\ marks' = [marks EXCEPT !.sizing_end = now']
    /\ pc' = "session"
    /\ UNCHANGED <<sizings, dataVars, results, file_idx, run, spark, spark_session, fileSize,
                   metrics, times, model, reported, created, trace, run_metrics, attempted,
                   failed, slow_used>>

\* Lines 100 to 139: the sizing of the file and the sized session.
SizedSession ==
    /\ pc = "session"
    /\ LET plan == configure_spark(bytes_to_gb(fileSize))
           s == getOrCreate(live, [app |-> "Project Group 32", file |-> file_idx, run |-> run,
                                   conf |-> session_conf(plan)])
       IN  /\ spark_session' = s
           /\ live' = live \cup {s}
           /\ created' = IF s \in live THEN created ELSE created + 1
    /\ trace' = Append(trace, "Session")
    /\ now' = now + 1
    /\ pc' = "load"
    /\ UNCHANGED <<sizings, dataVars, results, file_idx, run, spark, fileSize, metrics, times,
                   model, reported, marks, run_metrics, attempted, failed, slow_used>>

\* Line 470: load_data.
LoadData ==
    /\ pc = "load"
    /\ df' = LoadedCorpus(file_idx)
    /\ trace' = Append(trace, "Load")
    /\ now' = now + 1
    /\ marks' = [marks EXCEPT !.read_end = now']
    /\ pc' = "loaded"
    /\ UNCHANGED <<sizings, df_filtered, top_25_subreddits, train_data, test_data, split_args,
                   split_log, results, file_idx, run, live, spark, spark_session, fileSize,
                   metrics, times, model, reported, created, run_metrics, attempted, failed,
                   slow_used>>

\* Line 473: filter_data.
Filter ==
    /\ pc = "loaded"
    /\ FilterCall
    /\ trace' = Append(trace, "Filter")
    /\ now' = now + 1
    /\ pc' = "filtered"
    /\ UNCHANGED <<sizings, df, train_data, test_data, split_args, split_log, results, file_idx,
                   run, live, spark, spark_session, fileSize, metrics, times, model, reported,
                   created, marks, run_metrics, attempted, failed, slow_used>>

\* Line 476: split_data with its default seed and fraction.
Split ==
    /\ pc = "filtered"
    /\ SplitCall(default_seed, default_test_fraction)
    /\ trace' = Append(trace, "Split")
    /\ now' = now + 1
    /\ marks' = [marks EXCEPT !.prepare_end = now']
    /\ pc' = "split"
    /\ UNCHANGED <<sizings, df, df_filtered, top_25_subreddits, results, file_idx, run, live,
                   spark, spark_session, fileSize, metrics, times, model, reported, created,
                   run_metrics, attempted, failed, slow_used>>

\* Lines 479 and 480: data_time and data_load_time[i].
DataTime ==
    /\ pc = "split"
    /\ times' = [times EXCEPT !.data_time = now]
    /\ metrics' = [metrics EXCEPT !.data_load_time[run + 1] = data_load(times')]
    /\ pc' = "train"
    /\ UNCHANGED <<sizings, dataVars, results, file_idx, run, live, spark, spark_session,
                   fileSize, now, model, reported, created, trace, marks, run_metrics,
                   attempted, failed, slow_used>>

\* Lines 483 to 490: the fit, train_time and training_time[i].
Train ==
    /\ pc = "train"
    /\ model' = random_forest(train_data)
    /\ \E slow \in {0, 1} :
          /\ slow_used + slow <= MaxSlow
          /\ slow_used' = slow_used + slow
          /\ now' = now + 1 + slow
    /\ times' = [times EXCEPT !.train_time = now']
    /\ metrics' = [metrics EXCEPT !.training_time[run + 1] = training(times')]
    /\ trace' = Append(trace, "Train")
    /\ pc' = "eval"
    /\ UNCHANGED <<sizings, dataVars, results, file_idx, run, live, spark, spark_session,
                   fileSize, reported, created, marks, run_metrics, attempted, failed>>

\* Lines 493 to 498: model_eval, eval_time and evaluation_time[i].
Evaluate ==
    /\ pc = "eval"
    /\ now' = now + 1
    /\ times' = [times EXCEPT !.eval_time = now']
    /\ metrics' = [metrics EXCEPT !.model_accuracy[run + 1] = model_eval(model, test_data),
                                  !.evaluation_time[run + 1] = evaluation(times')]
    /\ trace' = Append(trace, "Evaluate")
    /\ marks' = [marks EXCEPT !.eval_end = now']
    /\ pc' = "stop"
    /\ UNCHANGED <<sizings, dataVars, results, file_idx, run, live, spark, spark_session,
                   fileSize, model, reported, created, run_metrics, attempted, failed,
                   slow_used>>

\* Lines 500 to 504: the session's settings are read and the session is stopped.
Stop ==
    /\ pc = "stop"
    /\ reported' = spark_session.conf
    /\ live' = stop(live, spark_session)
    /\ now' = now + 1
    /\ marks' = [marks EXCEPT !.release_end = now']
    /\ trace' = Append(trace, "Teardown")
    /\ pc' = "end"
    /\ UNCHANGED <<sizings, dataVars, results, file_idx, run, spark, spark_session, fileSize,
                   metrics, times, model, created, run_metrics, attempted, failed, slow_used>>

\* Lines 507 and 508: end_time and overall_exec_time[i]; the loop goes on.
EndTime ==
    /\ pc = "end"
    /\ times' = [times EXCEPT !.end_time = now]
    /\ metrics' = [metrics EXCEPT !.overall_exec_time[run + 1] = overall(times')]
    /\ run_metrics' = Append(run_metrics,
            [load_time  |-> metrics'.data_load_time[run + 1],
             train_time |-> metrics'.training_time[run + 1],
             eval_time  |-> metrics'.evaluation_time[run + 1],
             total_time |-> metrics'.overall_exec_time[run + 1],
             accuracy   |-> metrics'.model_accuracy[run + 1]])
    /\ run' = run + 1
    /\ pc' = "for_i"
    /\ UNCHANGED <<sizings, dataVars, results, file_idx, live, spark, spark_session, fileSize,
                   now, model, reported, created, trace, marks, attempted, failed, slow_used>>

\* evaluate_performance is left, by return or by an exception: its local
\* variables, and those of the functions it called, are gone.
DropLocals ==
    /\ run' = 0
    /\ spark' = NoSession
    /\ spark_session' = NoSession
    /\ fileSize' = 0
    /\ metrics' = NoMetrics
    /\ times' = NoTimes
    /\ model' = NULL
    /\ reported' = NoConf
    /\ df' = <<>>
    /\ df_filtered' = <<>>
    /\ top_25_subreddits' = <<>>
    /\ train_data' = <<>>
    /\ test_data' = <<>>
    /\ split_args' = <<>>

\* Lines 513 and 936: the means are returned and the row is appended.
Return ==
    /\ pc = "for_i"
    /\ run = N
    /\ results' = append(results, BenchmarkRow)
    /\ file_idx' = file_idx + 1
    /\ pc' = "for_file"
    /\ DropLocals
    /\ UNCHANGED <<sizings, split_log, live, now, created, trace, marks, run_metrics, attempted,
                   failed, slow_used>>

\* The statements that can raise: the file status of the probe, load_data,
\* filter_data, split_data, the fit and the evaluation.
RaisingSteps == {"status", "load", "loaded", "filtered", "train", "eval"}

\* Lines 938 to 940: a step raises, evaluate_performance is left at once and
\* the except branch of the loop over files runs.
Raise ==
    /\ pc \in RaisingSteps
    /\ failed' = failed \cup {file_idx}
    /\ results' = on_exception(results, file_idx)
    /\ file_idx' = after_exception(file_idx)
    /\ pc' = "for_file"
    /\ DropLocals
    /\ run_metrics' = <<>>
    /\ UNCHANGED <<sizings, split_log, live, now, created, trace, marks, attempted, slow_used>>

Init ==
    /\ sizings = <<>>
    /\ df = <<>>
    /\ df_filtered = <<>>
    /\ top_25_subreddits = <<>>
    /\ train_data = <<>>
    /\ test_data = <<>>
    /\ split_args = <<>>
    /\ split_log = <<>>
    /\ pc = "for_file"
    /\ InitHarnessVars

Next ==
    \/ CallEvaluatePerformance
    \/ Finish
    \/ BeginRep
    \/ ProbeSession
    \/ GetFileStatus
    \/ ProbeStop
    \/ SizedSession
    \/ LoadData
    \/ Filter
    \/ Split
    \/ DataTime
    \/ Train
    \/ Evaluate
    \/ Stop
    \/ EndTime
    \/ Return
    \/ Raise

Spec == Init /\ [][Next]_vars

-----------------------------------------------------------------------------
Calls == {sizings[i] : i \in DOMAIN sizings}

\* C1: for every byte size >= 0 the executor_cores that configure_spark returns
\* is an even integer and is at least 2.
C1_CoresEvenAtLeast2 ==
    \A c \in Calls :
        c.fileSize >= 0 => c.plan.executor_cores % 2 = 0 /\ c.plan.executor_cores >= 2

\* A size of half a gigabyte: int(1.0) + 2 = 3 is odd and has been raised to 4.
C1_Witness ==
    \E c \in Calls : c.fileSize = HalfGbUnits /\ c.plan.executor_cores = 4

\* C2: for two byte sizes a <= b, both >= 0, the executor_cores computed for a
\* is at most the executor_cores computed for b.
C2_Monotonic ==
    \A a, b \in Calls :
        (0 <= a.fileSize /\ a.fileSize <= b.fileSize)
            => a.plan.executor_cores <= b.plan.executor_cores

\* Two calls, the second on a larger size that yields strictly more cores.
C2_Witness ==
    /\ Len(sizings) = 2
    /\ 0 <= sizings[1].fileSize
    /\ sizings[1].fileSize < sizings[2].fileSize
    /\ sizings[1].plan.executor_cores < sizings[2].plan.executor_cores

\* C3: for every byte size >= 0 the executor memory is min(cores, 4) gigabytes,
\* cores being the evened core count: an integer in 1..4.
C3_MemoryIsMinCores4 ==
    \A c \in Calls :
        c.fileSize >= 0 =>
            \E n \in 1..4 : /\ c.plan.executor_memory = ToString(n) \o "g"
                            /\ n = Min(c.plan.executor_cores, 4)

\* A size with more than 4 cores whose memory has been capped to "4g".
C3_Witness ==
    \E c \in Calls :
        c.fileSize >= 0 /\ c.plan.executor_cores > 4 /\ c.plan.executor_memory = "4g"

\* C4: the sizing fails on a negative byte size and returns a plan without
\* failing on every byte size >= 0.
C4_FailsIffNegative ==
    \A c \in Calls : c.plan.raised <=> c.fileSize < 0

\* C5: for a dataset of 18.27 GB the sized session reports executor cores 4
\* and executor memory "4g", as in the recorded run.
C5_ScenarioB ==
    \A c \in Calls :
        (c.call = "build_spark_session" /\ GbHundredths(c.fileSize) = 1827) =>
            /\ c.conf.spark_executor_cores = 4
            /\ c.conf.spark_executor_memory = "4g"

\* The session of the 18.27 GB corpus: configure_spark returned 38 cores and
\* spark.executor.cores is min(38, 4).
C5_Witness ==
    \E c \in Calls :
        /\ c.call = "build_spark_session"
        /\ GbHundredths(c.fileSize) = 1827
        /\ c.plan.executor_cores = 38
        /\ c.conf.spark_executor_cores = 4

\* C6: for a dataset of 0.365 GB the sizing yields executor_cores 2 and
\* executor_memory "2g", in configure_spark's result and in the session.
C6_ScenarioA ==
    \A c \in Calls :
        GbThousandths(c.fileSize) = 365 =>
            /\ c.plan.executor_cores = 2
            /\ c.plan.executor_memory = "2g"
            /\ c.call = "build_spark_session" =>
                   /\ c.conf.spark_executor_cores = 2
                   /\ c.conf.spark_executor_memory = "2g"

\* The session of the 0.365 GB corpus has been built with 2 cores and "2g".
C6_Witness ==
    \E c \in Calls :
        /\ c.call = "build_spark_session"
        /\ GbThousandths(c.fileSize) = 365
        /\ c.conf.spark_executor_cores = 2
        /\ c.conf.spark_executor_memory = "2g"

-----------------------------------------------------------------------------
Filtered == pc \in {"filtered", "split"}

\* The rows of the loaded corpus with all three columns present.
ValidRows == SelectSeq(df, LAMBDA r : r.subreddit # NULL /\ r.summary # NULL /\ r.content # NULL)

Cats(rows) == {rows[i].subreddit : i \in DOMAIN rows}

\* The pairs <<subreddit, number of its rows>> of rows.
CatCounts(rows) ==
    {<<c, Cardinality({i \in DOMAIN rows : rows[i].subreddit = c})>> : c \in Cats(rows)}

\* C7: the output of filter_data holds no row whose subreddit, summary or
\* content is absent, and at most 25 distinct subreddits.
C7_NoNullAtMostTopK ==
    Filtered =>
        /\ \A r \in Range(df_filtered) :
              r.subreddit # NULL /\ r.summary # NULL /\ r.content # NULL
        /\ Cardinality(Cats(df_filtered)) <= top_k

\* A corpus with incomplete lines and more than 25 subreddits has been filtered.
C7_Witness ==
    /\ Filtered
    /\ \E r \in Range(df) : r.subreddit # NULL /\ r.summary # NULL /\ r.content = NULL
    /\ Cardinality(Cats(ValidRows)) > top_k
    /\ Cardinality(Cats(df_filtered)) = top_k

\* C8: the output is exactly the valid rows whose subreddit is in the retained
\* set R, and every subreddit of R has at least as many valid rows as every
\* valid subreddit outside R.
C8_RetainsMostFrequent ==
    Filtered =>
        LET R      == Range(top_25_subreddits)
            valid  == ValidRows
            counts == CatCounts(valid)
        IN  /\ df_filtered = SelectSeq(valid, LAMBDA r : r.subreddit \in R)
            /\ R \subseteq {p[1] : p \in counts}
            /\ \A p, q \in counts : (p[1] \in R /\ q[1] \notin R) => p[2] >= q[2]

\* Subreddits of one and of two valid posts, one of the former dropped and one
\* kept, in a corpus that also holds incomplete lines.
C8_Witness ==
    /\ Filtered
    /\ LET R      == Range(top_25_subreddits)
           valid  == ValidRows
           counts == CatCounts(valid)
       IN  /\ Len(valid) < Len(df)
           /\ \E p, q, t \in counts :
                 /\ p[1] \in R /\ p[2] = 2
                 /\ q[1] \in R /\ q[2] = 1
                 /\ t[1] \notin R /\ t[2] = 1

\* C9: the output holds min(25, number of valid subreddits) distinct
\* subreddits, every retained subreddit occurs in an output row, and a corpus
\* without a valid row gives the empty output.
C9_RetainedCount ==
    Filtered =>
        LET valid == ValidRows
            out   == Cats(df_filtered)
        IN  /\ Cardinality(out) = Min(top_k, Cardinality(Cats(valid)))
            /\ Len(top_25_subreddits) = Cardinality(out)
            /\ Range(top_25_subreddits) = out
            /\ valid = <<>> => df_filtered = <<>>

\* Scenario C: 30 distinct subreddits, 25 retained.
C9_Witness ==
    /\ Filtered
    /\ Cardinality(Cats(ValidRows)) = 30
    /\ Len(top_25_subreddits) = 25
    /\ Cardinality(Cats(df_filtered)) = 25

\* No valid row: the output is empty although the corpus is not.
C9_WitnessEmpty ==
    /\ Filtered
    /\ df # <<>>
    /\ ValidRows = <<>>
    /\ df_filtered = <<>>

Rids(data) == {data[i].rid : i \in DOMAIN data}

\* C10: every row of split_data's input is in exactly one of train_data and
\* test_data: none lost, none duplicated, the two disjoint.
C10_Partition ==
    pc = "split" =>
        /\ Range(train_data) \cup Range(test_data) = Range(df_filtered)
        /\ Rids(train_data) \cap Rids(test_data) = {}
        /\ Len(train_data) + Len(test_data) = Len(df_filtered)

\* A split that put rows on both sides.
C10_Witness ==
    /\ pc = "split"
    /\ Len(train_data) >= 2
    /\ Len(test_data) >= 2

\* C11: two calls of split_data with the same seed, the same test_fraction and
\* the same input put every row on the same side.
C11_Deterministic ==
    Len(split_log) = 2 =>
        LET a == split_log[1]
            b == split_log[2]
        IN  (a.seed = b.seed /\ a.test_fraction = b.test_fraction /\ a.input = b.input)
                => (a.train_data = b.train_data /\ a.test_data = b.test_data)

\* Two calls with the default seed 42 and fraction 0.2 on one DataFrame with
\* rows on both sides.
C11_Witness ==
    /\ Len(split_log) = 2
    /\ split_log[1].seed = 42 /\ split_log[2].seed = 42
    /\ split_log[1].test_fraction = 20 /\ split_log[2].test_fraction = 20
    /\ split_log[1].input = split_log[2].input
    /\ split_log[2].train_data # <<>>
    /\ split_log[2].test_data # <<>>

-----------------------------------------------------------------------------
(* The claims about the benchmark.                                          *)

\* C12: no session is live once the repetition loop of a file has been left,
\* by return or by an error, or once the loop over files is over.
C12_SessionsReleased == pc \in {"for_file", "done"} => live = {}

\* C13 as stated: at most one session is live and a repetition starts one session.
C13_OnePerRepetition == Cardinality(live) <= 1 /\ created <= 1

\* C13: at most one session is live, a session is started only when none is
\* live, and a repetition starts at most two sessions, the probe's and the sized one.
C13_AtMostOneLive ==
    [][/\ Cardinality(live') <= 1
       /\ created' <= 2
       /\ created' = created + 1 => live = {}]_vars

\* A repetition after a failed file has started its second session.
C13_Witness == pc = "load" /\ created = 2 /\ Cardinality(live) = 1 /\ failed # {}

\* C14: evaluate_performance is called on every file of the list in turn,
\* whichever files raised before, and the loop ends only after the last file.
C14_Continues ==
    /\ attempted = 1..(IF pc \in {"for_file", "done"} THEN file_idx - 1 ELSE file_idx)
    /\ pc = "done" => attempted = DOMAIN files

\* The loop is over, a file failed and a later file went through all its runs.
C14_Witness ==
    /\ pc = "done"
    /\ \E f \in failed : \E g \in attempted \ failed : g > f

RowFiles(rows) == {rows[k].file : k \in DOMAIN rows}

\* C15: a file that raised has no row, and the step that raises leaves the
\* rows of results as they were.
C15_NoRowForFailed ==
    [][/\ RowFiles(results') \cap {files[f] : f \in failed'} = {}
       /\ failed' # failed => results' = results]_vars

\* A file failed after the first file's row had been appended.
C15_Witness ==
    /\ results # <<>>
    /\ results[1].file = files[1]
    /\ failed # {}
    /\ pc = "for_file"

FileIndex(name) == CHOOSE f \in DOMAIN files : files[f] = name

\* C16: a step leaves results alone or appends one row at the end, and the
\* rows stand in the order of the files, one row per file at most.
C16_AppendOnly ==
    [][/\ \/ results' = results
          \/ /\ Len(results') = Len(results) + 1
             /\ SubSeq(results', 1, Len(results)) = results
       /\ \A k \in 1..(Len(results') - 1) :
             FileIndex(results'[k].file) < FileIndex(results'[k + 1].file)]_vars

\* All five files have their row.
C16_Witness == pc = "done" /\ Len(results) = Len(files)

RECURSIVE SumField(_, _)
SumField(runs, field) ==
    IF runs = <<>> THEN 0 ELSE runs[1][field] + SumField(Tail(runs), field)

IsMeanOf(value, runs, field) ==
    /\ value.den # 0
    /\ value.num * Len(runs) = SumField(runs, field) * value.den

\* C17: the row appended for a file holds, for each time and for the accuracy,
\* the sum of the values of the file's N repetitions divided by N.
C17_RowIsMean ==
    [][results' # results =>
          LET row == results'[Len(results')]
          IN  /\ Len(run_metrics) = N
              /\ row.file = files[file_idx]
              /\ IsMeanOf(row.data_load_time, run_metrics, "load_time")
              /\ IsMeanOf(row.training_time, run_metrics, "train_time")
              /\ IsMeanOf(row.evaluation_time, run_metrics, "eval_time")
              /\ IsMeanOf(row.overall_exec_time, run_metrics, "total_time")
              /\ IsMeanOf(row.model_accuracy, run_metrics, "accuracy")]_vars

\* A row whose repetitions did not all take the same time.
C17_Witness ==
    /\ pc = "for_file"
    /\ Len(run_metrics) = N
    /\ results # <<>>
    /\ \E a, b \in DOMAIN run_metrics : run_metrics[a].train_time # run_metrics[b].train_time
    /\ results[Len(results)].model_accuracy.num > 0

PhaseOrder ==
    <<"Sizing", "Session", "Load", "Filter", "Split", "Train", "Evaluate", "Teardown">>

\* C18: the phases of a repetition come in order, and a repetition starts its
\* first phase only when the one before it has been through Teardown.
C18_PhasesInOrder ==
    [][/\ Len(trace') <= Len(PhaseOrder)
       /\ trace' = SubSeq(PhaseOrder, 1, Len(trace'))
       /\ (pc = "probe" /\ pc' = "status") => trace \in {<<>>, PhaseOrder}]_vars

\* A repetition has been through end_time: its marks and array entries stand.
RepDone == pc = "for_i" /\ run > 0

\* C19 as stated: the total time starts after the size probe.
C19_TotalExcludesProbe ==
    RepDone => metrics.overall_exec_time[run] <= marks.release_end - marks.sizing_end

\* C19: the total time runs from the start of the repetition, before the size
\* probe, to the point after the session has been stopped.
C19_TotalFromStart ==
    RepDone => metrics.overall_exec_time[run] = marks.release_end - marks.sizing_begin

\* A finished repetition whose probe and slow training took time.
C19_Witness ==
    /\ RepDone
    /\ marks.sizing_end > marks.sizing_begin
    /\ metrics.training_time[run] > 1

\* C20 as stated: the load time ends when the file has been read.
C20_LoadEndsAtRead ==
    RepDone => metrics.data_load_time[run] <= marks.read_end - marks.sizing_begin

\* C20: the load time runs from the start of the repetition to the point after
\* filter_data and split_data.
C20_LoadCoversPrepare ==
    RepDone => metrics.data_load_time[run] = marks.prepare_end - marks.sizing_begin

\* A finished repetition in which filtering and splitting took time.
C20_Witness ==
    /\ RepDone
    /\ marks.prepare_end > marks.read_end
    /\ marks.read_end > marks.sizing_end

-----------------------------------------------------------------------------
(* The claims about the sized session and about the times of a row.         *)

\* C21: for every file length >= 0 the session's spark.cores.max is
\* min(cores, 32), hence at most 32, while the cores configure_spark returns
\* stay above twice the size in GB, whatever the size.
C21_MaxCoresIsMinCores32 ==
    \A c \in Calls :
        (c.call = "build_spark_session" /\ c.fileSize >= 0) =>
            /\ c.conf.spark_cores_max = Min(c.plan.executor_cores, 32)
            /\ c.conf.spark_cores_max <= 32
            /\ c.plan.executor_cores * (GiB \div MiB) > 2 * c.fileSize

\* A session for a file so large that configure_spark returned more than 32
\* cores, next to one for a smaller file whose cores were left as they are.
C21_Witness ==
    /\ Len(sizings) = 2
    /\ sizings[1].call = "build_spark_session"
    /\ sizings[2].call = "build_spark_session"
    /\ sizings[1].plan.executor_cores < 32
    /\ sizings[1].conf.spark_cores_max = sizings[1].plan.executor_cores
    /\ sizings[2].plan.executor_cores > 32
    /\ sizings[2].conf.spark_cores_max = 32

\* The steps of a repetition that work in the session build_spark_session returned.
SessionInUse == pc \in {"load", "loaded", "filtered", "split", "train", "eval", "stop"}

\* The settings a session sized for the file at position f has.
SizedConf(f) == session_conf(configure_spark(bytes_to_gb(FileLen[f])))

\* C22: the session a repetition loads, trains and evaluates in is running, was
\* built by the sized builder in this repetition of this file, and has the
\* settings sized for this file; every row reports the settings sized for its file.
C22_SessionSizedForFile ==
    /\ SessionInUse =>
          /\ spark_session \in live
          /\ spark_session.app = "Project Group 32"
          /\ spark_session.file = file_idx
          /\ spark_session.run = run
          /\ spark_session.conf = SizedConf(file_idx)
    /\ \A k \in DOMAIN results :
          LET conf == SizedConf(FileIndex(results[k].file))
          IN  /\ results[k].executor_cores = conf.spark_executor_cores
              /\ results[k].executor_memory = conf.spark_executor_memory
              /\ results[k].max_cores = conf.spark_cores_max

\* The file before this one failed and left its session running; this file,
\* of another size, trains in its own session, and an earlier file has its row.
C22_Witness ==
    /\ pc = "train"
    /\ (file_idx - 1) \in failed
    /\ SizedConf(file_idx) # SizedConf(file_idx - 1)
    /\ spark_session.conf = SizedConf(file_idx)
    /\ results # <<>>

\* C23: in a finished repetition the total time is the sum of load, train and
\* eval time plus the time from the end of the evaluation to the end of the
\* stop of the session, none of the four is negative, and in every row the
\* mean total time is at least the sum of the three other means.
C23_TotalCoversParts ==
    /\ RepDone =>
          LET load  == metrics.data_load_time[run]
              train == metrics.training_time[run]
              eval  == metrics.evaluation_time[run]
              total == metrics.overall_exec_time[run]
          IN  /\ total >= load + train + eval
              /\ total - (load + train + eval) = marks.release_end - marks.eval_end
              /\ load >= 0 /\ train >= 0 /\ eval >= 0 /\ total >= 0
    /\ \A k \in DOMAIN results :
          LET row == results[k]
          IN  /\ row.data_load_time.den = row.overall_exec_time.den
              /\ row.training_time.den = row.overall_exec_time.den
              /\ row.evaluation_time.den = row.overall_exec_time.den
              /\ row.overall_exec_time.den > 0
              /\ row.overall_exec_time.num >=
                    row.data_load_time.num + row.training_time.num + row.evaluation_time.num
              /\ row.data_load_time.num >= 0 /\ row.training_time.num >= 0
              /\ row.evaluation_time.num >= 0 /\ row.overall_exec_time.num >= 0

\* A repetition with a slow training run is finished, the stop of its session
\* took time, and a row of an earlier file stands in results.
C23_Witness ==
    /\ RepDone
    /\ results # <<>>
    /\ metrics.training_time[run] > 1
    /\ marks.release_end > marks.eval_end
    /\ metrics.overall_exec_time[run] >
          metrics.data_load_time[run] + metrics.training_time[run] + metrics.evaluation_time[run]

====
